---------------------------- MODULE Spec2Model ----------------------------
(***************************************************************************)
(* Model of the data-access layer of postgres-mcp (src/src/main.py):       *)
(* the session connection of app_lifespan, the three request handlers      *)
(* get_schema_description, get_table_description and query_database, and   *)
(* the psycopg 3 connection operations they call.  The handlers are        *)
(* coroutines on one asyncio event loop; "running" is the coroutine that   *)
(* holds the loop.                                                         *)
(***************************************************************************)
EXTENDS Integers, Sequences, FiniteSets, TLC

VARIABLES
    phase,        \* app_lifespan: "down" (not entered / left), "up" (at its yield)
    sessionConn,  \* index in conns of AppContext.db_connection, 0 when none yet
    conns,        \* every connection psycopg.connect has returned, in order
    committed,    \* the database: mutations that are durably committed
    req,          \* the request slots of the transport
    running,      \* the slot whose coroutine holds the event loop, 0 when none
    sessions,     \* number of sessions started so far
    dispatched,   \* number of requests dispatched so far
    acked         \* mutations of query_database calls that returned a result

vars == <<phase, sessionConn, conns, committed, req, running, sessions,
          dispatched, acked>>

(***************************************************************************)
(* Bounds of the model.                                                    *)
(***************************************************************************)
MaxSessions == 2
MaxRequests == 2
MaxConcurrent == 2

Slots == 1..MaxConcurrent

(***************************************************************************)
(* Values a driver row can hold: <<type tag, payload>>.                    *)
(***************************************************************************)
VNone == <<"none", "">>
VUuid(h) == <<"uuid", h>>
VStr(s) == <<"str", s>>
VInt(n) == <<"int", n>>
VBool(b) == <<"bool", b>>

\* isinstance(value, uuid.UUID)
IsUUID(value) == value[1] = "uuid"

\* str(value) of a uuid.UUID: the canonical text of the same 128 bits
UuidToStr(value) == <<"str", value[2]>>

(***************************************************************************)
(* The statements the caller may send to query_database, and what the      *)
(* server does with each: whether execute raises, the mutation it makes,   *)
(* whether it yields a result set, and that result set.                    *)
(***************************************************************************)
NoMutation == "none"
Mutations == {"insert_user", "update_user", "insert_deferred"}

\* mutations that violate a deferred constraint: COMMIT raises for them
DeferredViolations == {"insert_deferred"}

Statement(fails, mutation, hasResult, cols, tuples) ==
    [fails |-> fails, mutation |-> mutation, hasResult |-> hasResult,
     cols |-> cols, tuples |-> tuples]

Statements ==
    [ select_users |->
        Statement(FALSE, NoMutation, TRUE, <<"id", "name", "age">>,
                  << <<VUuid("a1b2"), VStr("ann"), VInt("41")>>,
                     <<VUuid("c3d4"), VNone, VInt("7")>> >>),
      select_flags |->
        Statement(FALSE, NoMutation, TRUE, <<"ok", "id", "id">>,
                  << <<VBool("true"), VStr("a1b2"), VUuid("a1b2")>> >>),
      select_none |->
        Statement(FALSE, NoMutation, TRUE, <<"id">>, <<>>),
      selec |->
        Statement(TRUE, NoMutation, FALSE, <<>>, <<>>),
      insert_returning |->
        Statement(FALSE, "insert_user", TRUE, <<"id">>,
                  << <<VUuid("e5f6")>> >>),
      update |->
        Statement(FALSE, "update_user", FALSE, <<>>, <<>>),
      insert_deferred |->
        Statement(FALSE, "insert_deferred", TRUE, <<"id">>,
                  << <<VUuid("0708")>> >>) ]

Queries == DOMAIN Statements

(***************************************************************************)
(* The system catalog the introspection queries read.                      *)
(***************************************************************************)
CatColumn(name, ordinal, type, nullable, default, charlen, precision, scale) ==
    [column_name |-> name, ordinal_position |-> ordinal, data_type |-> type,
     is_nullable |-> nullable, column_default |-> default,
     character_maximum_length |-> charlen, numeric_precision |-> precision,
     numeric_scale |-> scale]

CatTable(schema, name, relkind, description, columns) ==
    [schema |-> schema, name |-> name, relkind |-> relkind,
     description |-> description, columns |-> columns]

\* the collation of the names: a name sorts before the names after it
Collation == <<"active_users", "id", "name", "nocols", "orders", "total",
               "users", "age">>

Rank(name) == CHOOSE i \in 1..Len(Collation) : Collation[i] = name

Catalog ==
    { CatTable("public", "users", "r", VStr("Application users"),
        { CatColumn("id", 1, "uuid", "NO", VStr("gen_random_uuid()"),
                    VNone, VNone, VNone),
          CatColumn("name", 2, "text", "YES", VNone, VInt("64"), VNone, VNone),
          CatColumn("age", 4, "integer", "YES", VNone, VNone, VInt("32"),
                    VInt("0")) }),
      CatTable("public", "orders", "r", VNone,
        { CatColumn("total", 1, "numeric", "NO", VNone, VNone, VInt("10"),
                    VInt("2")),
          CatColumn("id", 2, "uuid", "NO", VNone, VNone, VNone, VNone) }),
      CatTable("public", "nocols", "r", VNone, {}),
      CatTable("public", "active_users", "v", VNone,
        { CatColumn("id", 1, "uuid", "YES", VNone, VNone, VNone, VNone) }) }

\* the arguments a caller may pass: "audit" has no ordinary table, "ghost"
\* is no schema at all, "missing" is no table at all
SchemaArgs == {"public", "audit", "ghost"}
TableArgs ==
    {<<"public", "users">>, <<"public", "orders">>, <<"public", "nocols">>,
     <<"public", "missing">>, <<"ghost", "users">>}

\* ORDER BY schema_name, table_name over tables of one schema
RECURSIVE OrderByName(_)
OrderByName(tables) ==
    IF tables = {} THEN <<>>
    ELSE LET first == CHOOSE t \in tables :
                        \A u \in tables : Rank(t.name) <= Rank(u.name)
         IN <<first>> \o OrderByName(tables \ {first})

\* ORDER BY ordinal_position
RECURSIVE OrderByOrdinal(_)
OrderByOrdinal(columns) ==
    IF columns = {} THEN <<>>
    ELSE LET first == CHOOSE c \in columns :
                        \A d \in columns :
                            c.ordinal_position <= d.ordinal_position
         IN <<first>> \o OrderByOrdinal(columns \ {first})

\* the query of get_schema_description, lines 71-83
SchemaQuery(schema) ==
    LET hit == OrderByName({t \in Catalog :
                               t.relkind = "r" /\ t.schema = schema})
    IN [i \in 1..Len(hit) |->
          <<VStr(hit[i].schema), VStr(hit[i].name), hit[i].description>>]

\* the query of get_table_description, lines 125-141
TableQuery(schema, table) ==
    LET cols == UNION {t.columns : t \in {u \in Catalog :
                          u.schema = schema /\ u.name = table}}
        hit == OrderByOrdinal(cols)
    IN [i \in 1..Len(hit) |->
          <<VStr(hit[i].column_name), VStr(hit[i].data_type),
            VStr(hit[i].is_nullable), hit[i].column_default,
            hit[i].character_maximum_length, hit[i].numeric_precision,
            hit[i].numeric_scale>>]

SchemaQueryCols == <<"schema_name", "table_name", "table_description">>
TableQueryCols ==
    <<"column_name", "data_type", "is_nullable", "column_default",
      "character_maximum_length", "numeric_precision", "numeric_scale">>

(***************************************************************************)
(* psycopg connections.                                                    *)
(***************************************************************************)
DefaultRowFactory == "tuple_row"

\* psycopg.connect(..., row_factory=rf): a new open connection, autocommit off
Connect(rf, by) ==
    [closed |-> FALSE, row_factory |-> rf, tx |-> "IDLE", pending |-> {},
     by |-> by]

\* Connection.close(): the server discards the uncommitted work
Close(c) == [c EXCEPT !.closed = TRUE, !.tx = "IDLE", !.pending = {}]

\* Connection.rollback()
Rollback(c) == [c EXCEPT !.tx = "IDLE", !.pending = {}]

\* Connection.commit() raises when a deferred constraint is violated; the
\* server then rolls the transaction back and the connection stays usable
CommitRaises(c) == c.pending \cap DeferredViolations # {}

\* Connection.commit()
Commit(c) == [c EXCEPT !.tx = "IDLE", !.pending = {}]

\* cursor.execute(stmt) on connection c: an implicit BEGIN, then the statement
Execute(c, stmt) ==
    IF stmt.fails
    THEN [c EXCEPT !.tx = "INERROR"]
    ELSE [c EXCEPT !.tx = "INTRANS",
                   !.pending = IF stmt.mutation = NoMutation THEN @
                               ELSE @ \cup {stmt.mutation}]

ExitResult(c, durable, raises) ==
    [conn |-> c, durable |-> durable, raises |-> raises]

\* a faulty Connection.__exit__: it closes without committing
ConnExitNoCommit(c, exc) ==
    IF c.closed THEN ExitResult(c, {}, FALSE)
    ELSE ExitResult(Close(Rollback(c)), {}, FALSE)

\* a faulty Connection.__exit__: it ends the transaction but leaves the connection
\* open, as psycopg2's does
ConnExitKeepOpen(c, exc) ==
    IF c.closed THEN ExitResult(c, {}, FALSE)
    ELSE IF exc THEN ExitResult(Rollback(c), {}, FALSE)
    ELSE IF CommitRaises(c) THEN ExitResult(Rollback(c), {}, TRUE)
    ELSE ExitResult(Commit(c), c.pending, FALSE)

\* Connection.__exit__(exc_type, ...) of psycopg 3, the end of
\* "with db_connection as conn": nothing on a closed connection; otherwise
\* rollback on an exception, commit without one, and then close().  A commit
\* that raises leaves before the close().  The result is the connection
\* afterwards, the mutations made durable, and whether __exit__ raised.
ConnExit(c, exc) ==
    IF c.closed THEN ExitResult(c, {}, FALSE)
    ELSE IF exc THEN ExitResult(Close(Rollback(c)), {}, FALSE)
    ELSE IF CommitRaises(c) THEN ExitResult(Rollback(c), {}, TRUE)
    ELSE ExitResult(Close(Commit(c)), c.pending, FALSE)

\* dict_row: the row as a mapping from column name to value (a repeated name
\* keeps its last value); tuple_row: the row as the tuple itself
MakeRow(rf, cols, tuple) ==
    IF rf = "dict_row"
    THEN [k \in {cols[i] : i \in 1..Len(cols)} |->
            tuple[CHOOSE i \in 1..Len(cols) :
                    /\ cols[i] = k
                    /\ \A j \in 1..Len(cols) : cols[j] = k => j <= i]]
    ELSE tuple

\* cursor.fetchall(): every row of the result set, built by the row factory
Fetchall(rf, cols, tuples) ==
    [i \in 1..Len(tuples) |-> MakeRow(rf, cols, tuples[i])]

(***************************************************************************)
(* query_database: normalization and serialization.                        *)
(***************************************************************************)
\* a faulty inner loop: it applies str() to every value
ProcessRowStrAll(row) == [key \in DOMAIN row |-> <<"str", row[key][2]>>]

\* the inner loop of query_database over row.items()
ProcessRow(row) ==
    [key \in DOMAIN row |->
        IF IsUUID(row[key]) THEN UuidToStr(row[key]) ELSE row[key]]

\* the outer loop of query_database: processed_rows.append(processed_row)
RECURSIVE ProcessRows(_)
ProcessRows(rows) ==
    IF rows = <<>> THEN <<>>
    ELSE <<ProcessRow(Head(rows))>> \o ProcessRows(Tail(rows))

\* yaml.dump(value): a YAML document holding the value
YamlDump(value) == [yaml |-> value]

(***************************************************************************)
(* get_schema_description and get_table_description: the mapping step.     *)
(***************************************************************************)
\* row[0], row[1], ...: positional access works on the rows of tuple_row
Positional(rf) == rf = "tuple_row"

\* row.items(): works on the rows of dict_row
Keyed(rf) == rf = "dict_row"

\* a faulty mapping step: it takes an empty result for an error
MappingRaisesOnEmpty(rf, rows) == rows = <<>> \/ ~Positional(rf)

\* whether the comprehension over the fetched rows raises: only by indexing
\* a row that is not a tuple; with no rows there is nothing to index
MappingRaises(rf, rows) == rows # <<>> /\ ~Positional(rf)

\* pydantic's coercion of a str to the bool field is_nullable
CoerceBool(value) ==
    IF value[2] \in {"YES", "yes", "true", "1", "y", "t", "on"}
    THEN VBool("true") ELSE VBool("false")

\* TableSummary(schema_name=table[0], table_name=table[1], ...)
MakeTableSummary(table) ==
    [schema_name |-> table[1], table_name |-> table[2],
     table_description |-> table[3]]

\* DatabaseSummary(tables=[TableSummary(...) for table in tables])
DatabaseSummary(tables) ==
    [tables |-> [i \in 1..Len(tables) |-> MakeTableSummary(tables[i])]]

\* Column(column_name=column[0], ..., numeric_scale=column[6])
MakeColumn(column) ==
    [column_name |-> column[1], data_type |-> column[2],
     is_nullable |-> CoerceBool(column[3]), column_default |-> column[4],
     character_maximum_length |-> column[5],
     numeric_precision |-> column[6], numeric_scale |-> column[7]]

\* a faulty mapping: it emits the columns in reverse
TableReversed(schema, table, columns) ==
    [schema_name |-> VStr(schema), table_name |-> VStr(table),
     columns |-> [i \in 1..Len(columns) |->
                    MakeColumn(columns[Len(columns) + 1 - i])]]

\* Table(schema_name=schema, table_name=table, columns=[Column(...) ...])
Table(schema, table, columns) ==
    [schema_name |-> VStr(schema), table_name |-> VStr(table),
     columns |-> [i \in 1..Len(columns) |-> MakeColumn(columns[i])]]

(***************************************************************************)
(* Request slots.                                                          *)
(***************************************************************************)
IdleSlot ==
    [kind |-> "none", pc |-> "idle", query |-> "", schema |-> "",
     table |-> "", conn |-> 0, exc |-> FALSE, rows |-> <<>>,
     status |-> "none", out |-> <<>>]

\* a handler that has returned or raised resumes, in the same task, the
\* transport code that awaited it: the answer is taken before the event loop
\* schedules anything else
NoAnswerWaiting == \A s \in Slots : req[s].pc # "done"

\* the transport puts a new request in the first free slot
FirstFree(r) ==
    /\ NoAnswerWaiting
    /\ req[r].pc = "idle"
    /\ \A s \in Slots : s < r => req[s].pc # "idle"

\* the coroutine of slot r may take its next step: it holds the event loop,
\* or the loop is free and it is waiting to be (re)scheduled
CanStep(r) ==
    /\ NoAnswerWaiting
    /\ req[r].pc \notin {"idle", "done"}
    /\ running = r \/ running = 0

\* a faulty execute: awaited, it hands the event loop back
ExecuteSuspendsAwait == TRUE

\* cursor.execute of query_database is a blocking call, not an await: the
\* coroutine keeps the event loop across it
ExecuteSuspends == FALSE

Finish(r, status, out) ==
    /\ req' = [req EXCEPT ![r].pc = "done", ![r].status = status,
                          ![r].out = out]
    /\ running' = 0

Init ==
    /\ phase = "down"
    /\ sessionConn = 0
    /\ conns = <<>>
    /\ committed = {}
    /\ req = [r \in Slots |-> IdleSlot]
    /\ running = 0
    /\ sessions = 0
    /\ dispatched = 0
    /\ acked = {}

(***************************************************************************)
(* app_lifespan.                                                           *)
(***************************************************************************)
\* a faulty app_lifespan: it connects without row_factory
LifespanConnectDefault == Connect(DefaultRowFactory, "app_lifespan")

\* psycopg.connect of app_lifespan, with row_factory=dict_row
LifespanConnect == Connect("dict_row", "app_lifespan")

\* app_lifespan up to its yield; a connect that raises starts no session
app_lifespan_enter ==
    /\ phase = "down"
    /\ sessions < MaxSessions
    /\ running = 0
    /\ sessions' = sessions + 1
    /\ \E ok \in BOOLEAN :
         IF ok
         THEN /\ conns' = Append(conns, LifespanConnect)
              /\ sessionConn' = Len(conns) + 1
              /\ phase' = "up"
         ELSE UNCHANGED <<conns, sessionConn, phase>>
    /\ UNCHANGED <<committed, req, running, dispatched, acked>>

\* the finally of app_lifespan: db_connection.close(); the transport has
\* answered every request of the session by then
app_lifespan_exit ==
    /\ phase = "up"
    /\ running = 0
    /\ \A r \in Slots : req[r].pc = "idle"
    /\ conns' = [conns EXCEPT ![sessionConn] = Close(@)]
    /\ phase' = "down"
    /\ UNCHANGED <<sessionConn, committed, req, running, sessions,
                   dispatched, acked>>

(***************************************************************************)
(* The transport: it dispatches requests while a session is up, several    *)
(* at a time, and takes the answer of a finished one.                      *)
(***************************************************************************)
DispatchQuery(r) ==
    /\ phase = "up"
    /\ FirstFree(r)
    /\ dispatched < MaxRequests
    /\ dispatched' = dispatched + 1
    /\ \E q \in Queries :
         req' = [req EXCEPT ![r] = [IdleSlot EXCEPT !.kind = "query_database",
                                                    !.pc = "ready",
                                                    !.query = q]]
    /\ UNCHANGED <<phase, sessionConn, conns, committed, running, sessions,
                   acked>>

Reply(r) ==
    /\ req[r].pc = "done"
    /\ req' = [req EXCEPT ![r] = IdleSlot]
    /\ UNCHANGED <<phase, sessionConn, conns, committed, running, sessions,
                   dispatched, acked>>

(***************************************************************************)
(* query_database.                                                         *)
(***************************************************************************)
\* lines 179-181: take the session connection, enter "with db_connection",
\* conn.cursor().  cursor() raises on a closed connection, and __exit__
\* returns at once on a closed connection.
query_database_cursor(r) ==
    /\ CanStep(r)
    /\ req[r].kind = "query_database"
    /\ req[r].pc = "ready"
    /\ IF conns[sessionConn].closed
       THEN /\ req' = [req EXCEPT ![r].pc = "done", ![r].status = "error",
                                  ![r].conn = sessionConn, ![r].exc = TRUE]
            /\ running' = 0
       ELSE /\ req' = [req EXCEPT ![r].pc = "execute", ![r].conn = sessionConn]
            /\ running' = r
    /\ UNCHANGED <<phase, sessionConn, conns, committed, sessions,
                   dispatched, acked>>

\* line 182: cursor.execute(query)
query_database_execute(r) ==
    /\ CanStep(r)
    /\ req[r].kind = "query_database"
    /\ req[r].pc = "execute"
    /\ LET stmt == Statements[req[r].query]
           c == req[r].conn
       IN /\ conns' = [conns EXCEPT ![c] = Execute(@, stmt)]
          /\ req' = [req EXCEPT ![r].pc = IF stmt.fails THEN "exit"
                                          ELSE "fetchall",
                                ![r].exc = stmt.fails]
    /\ running' = IF ExecuteSuspends THEN 0 ELSE r
    /\ UNCHANGED <<phase, sessionConn, committed, sessions, dispatched,
                   acked>>

\* line 183: rows = cursor.fetchall(); it raises when the statement gave no
\* result set
query_database_fetchall(r) ==
    /\ CanStep(r)
    /\ req[r].kind = "query_database"
    /\ req[r].pc = "fetchall"
    /\ LET stmt == Statements[req[r].query]
           c == conns[req[r].conn]
       IN IF stmt.hasResult
          THEN req' = [req EXCEPT ![r].pc = "exit",
                          ![r].rows = Fetchall(c.row_factory, stmt.cols,
                                               stmt.tuples)]
          ELSE req' = [req EXCEPT ![r].pc = "exit", ![r].exc = TRUE]
    /\ running' = r
    /\ UNCHANGED <<phase, sessionConn, conns, committed, sessions,
                   dispatched, acked>>

\* a faulty query_database: it answers a failure with an empty result
QueryOutcomeSwallow(exc, rows) ==
    IF exc THEN [status |-> "ok", out |-> YamlDump(<<>>)]
    ELSE [status |-> "ok", out |-> YamlDump(ProcessRows(rows))]

\* what query_database returns or raises once both with blocks are left
QueryOutcome(exc, rows) ==
    IF exc THEN [status |-> "error", out |-> <<>>]
    ELSE [status |-> "ok", out |-> YamlDump(ProcessRows(rows))]

\* the exits of "with conn.cursor()" and "with db_connection", then lines
\* 184-196
query_database_exit(r) ==
    /\ CanStep(r)
    /\ req[r].kind = "query_database"
    /\ req[r].pc = "exit"
    /\ LET c == req[r].conn
           stmt == Statements[req[r].query]
           ex == ConnExit(conns[c], req[r].exc)
           keyed == Keyed(conns[c].row_factory) \/ req[r].rows = <<>>
           res == QueryOutcome(req[r].exc \/ ex.raises \/ ~keyed,
                               req[r].rows)
       IN /\ conns' = [conns EXCEPT ![c] = ex.conn]
          /\ committed' = committed \cup ex.durable
          /\ Finish(r, res.status, res.out)
          /\ acked' = IF res.status = "ok" /\ stmt.mutation # NoMutation
                      THEN acked \cup {stmt.mutation} ELSE acked
    /\ UNCHANGED <<phase, sessionConn, sessions, dispatched>>

(***************************************************************************)
(* get_schema_description and get_table_description.                       *)
(***************************************************************************)
DispatchSchema(r) ==
    /\ phase = "up"
    /\ FirstFree(r)
    /\ dispatched < MaxRequests
    /\ dispatched' = dispatched + 1
    /\ \E schema \in SchemaArgs :
         req' = [req EXCEPT ![r] = [IdleSlot EXCEPT
                    !.kind = "get_schema_description", !.pc = "ready",
                    !.schema = schema]]
    /\ UNCHANGED <<phase, sessionConn, conns, committed, running, sessions,
                   acked>>

DispatchTable(r) ==
    /\ phase = "up"
    /\ FirstFree(r)
    /\ dispatched < MaxRequests
    /\ dispatched' = dispatched + 1
    /\ \E target \in TableArgs :
         req' = [req EXCEPT ![r] = [IdleSlot EXCEPT
                    !.kind = "get_table_description", !.pc = "ready",
                    !.schema = target[1], !.table = target[2]]]
    /\ UNCHANGED <<phase, sessionConn, conns, committed, running, sessions,
                   acked>>

\* psycopg.connect of the two introspection handlers: no row_factory
RequestConnect(by) == Connect(DefaultRowFactory, by)

\* a faulty introspection request: it takes the session connection
AcquireShared(cs, by) ==
    IF sessionConn # 0 THEN [conns |-> cs, id |-> sessionConn]
    ELSE [conns |-> Append(cs, RequestConnect(by)), id |-> Len(cs) + 1]

\* the connection an introspection request works on: a new one, which
\* psycopg.connect has just returned
Acquire(cs, by) ==
    [conns |-> Append(cs, RequestConnect(by)), id |-> Len(cs) + 1]

\* lines 62-70 and 116-124: psycopg.connect, which may raise, then the two
\* with blocks are entered
IntrospectConnect(r, kind) ==
    /\ CanStep(r)
    /\ req[r].kind = kind
    /\ req[r].pc = "ready"
    /\ \E ok \in BOOLEAN :
         IF ok
         THEN LET a == Acquire(conns, kind)
              IN /\ conns' = a.conns
                 /\ req' = [req EXCEPT ![r].pc = "execute", ![r].conn = a.id]
                 /\ running' = r
         ELSE /\ Finish(r, "error", <<>>)
              /\ UNCHANGED conns
    /\ UNCHANGED <<phase, sessionConn, committed, sessions, dispatched,
                   acked>>

\* lines 84-85 and 142-143: cursor.execute, which may raise, and
\* cursor.fetchall
IntrospectExecute(r, kind, cols, tuples) ==
    /\ CanStep(r)
    /\ req[r].kind = kind
    /\ req[r].pc = "execute"
    /\ \E fails \in BOOLEAN :
         LET c == req[r].conn
             stmt == Statement(fails, NoMutation, TRUE, cols, tuples)
         IN /\ conns' = [conns EXCEPT ![c] = Execute(@, stmt)]
            /\ req' = [req EXCEPT
                         ![r].pc = "exit", ![r].exc = fails,
                         ![r].rows = IF fails THEN <<>>
                                     ELSE Fetchall(conns[c].row_factory,
                                                   cols, tuples)]
    /\ running' = r
    /\ UNCHANGED <<phase, sessionConn, committed, sessions, dispatched,
                   acked>>

\* the exits of the two with blocks; without an exception, lines 86-100 and
\* 144-164: db_connection.close(), the mapping and yaml.dump
IntrospectExit(r, kind, mapped) ==
    /\ CanStep(r)
    /\ req[r].kind = kind
    /\ req[r].pc = "exit"
    /\ LET c == req[r].conn
           ex == ConnExit(conns[c], req[r].exc)
       IN /\ committed' = committed \cup ex.durable
          /\ IF req[r].exc \/ ex.raises
             THEN /\ conns' = [conns EXCEPT ![c] = ex.conn]
                  /\ Finish(r, "error", <<>>)
             ELSE /\ conns' = [conns EXCEPT ![c] = Close(ex.conn)]
                  /\ IF MappingRaises(conns[c].row_factory, req[r].rows)
                     THEN Finish(r, "error", <<>>)
                     ELSE Finish(r, "ok", YamlDump(mapped))
    /\ UNCHANGED <<phase, sessionConn, sessions, dispatched, acked>>

get_schema_description_connect(r) ==
    IntrospectConnect(r, "get_schema_description")

get_schema_description_execute(r) ==
    IntrospectExecute(r, "get_schema_description", SchemaQueryCols,
                      SchemaQuery(req[r].schema))

get_schema_description_exit(r) ==
    IntrospectExit(r, "get_schema_description", DatabaseSummary(req[r].rows))

get_table_description_connect(r) ==
    IntrospectConnect(r, "get_table_description")

get_table_description_execute(r) ==
    IntrospectExecute(r, "get_table_description", TableQueryCols,
                      TableQuery(req[r].schema, req[r].table))

get_table_description_exit(r) ==
    IntrospectExit(r, "get_table_description",
                   Table(req[r].schema, req[r].table, req[r].rows))

Next ==
    \/ app_lifespan_enter
    \/ app_lifespan_exit
    \/ \E r \in Slots : DispatchQuery(r)
    \/ \E r \in Slots : Reply(r)
    \/ \E r \in Slots : query_database_cursor(r)
    \/ \E r \in Slots : query_database_execute(r)
    \/ \E r \in Slots : query_database_fetchall(r)
    \/ \E r \in Slots : query_database_exit(r)
    \/ \E r \in Slots : DispatchSchema(r)
    \/ \E r \in Slots : DispatchTable(r)
    \/ \E r \in Slots : get_schema_description_connect(r)
    \/ \E r \in Slots : get_schema_description_execute(r)
    \/ \E r \in Slots : get_schema_description_exit(r)
    \/ \E r \in Slots : get_table_description_connect(r)
    \/ \E r \in Slots : get_table_description_execute(r)
    \/ \E r \in Slots : get_table_description_exit(r)

Spec == Init /\ [][Next]_vars

(***************************************************************************)
(* The properties.                                                         *)
(***************************************************************************)
Introspection == {"get_schema_description", "get_table_description"}

Done(r, kind) == req[r].kind = kind /\ req[r].pc = "done"

\* C1: while a session is up its connection is open: no request handler
\* closes it, only the teardown of app_lifespan does.
C1_SessionConnStaysOpen ==
    phase = "up" => ~conns[sessionConn].closed

\* C2: a per-request connection is open only while the introspection request
\* that acquired it is still running; once the request has returned or
\* raised, its connection is closed.
C2_RequestConnsReleased ==
    \A i \in 1..Len(conns) :
        (conns[i].by \in Introspection /\ ~conns[i].closed)
            => \E r \in Slots : /\ req[r].conn = i
                                /\ req[r].pc \in {"execute", "exit"}

C2_Witness ==
    \E r \in Slots :
        /\ req[r].kind \in Introspection
        /\ req[r].pc = "done"
        /\ req[r].status = "error"
        /\ req[r].conn # 0
        /\ conns[req[r].conn].closed
        /\ conns[req[r].conn].by = req[r].kind

\* a query_database request between the start of its cursor.execute and the
\* end of its transaction exit
InUse(r) ==
    req[r].kind = "query_database" /\ req[r].pc \in {"fetchall", "exit"}

\* C3: at most one query_database request at a time is between its
\* cursor.execute and its transaction exit on the session connection.
C3_Serialized == Cardinality({r \in Slots : InUse(r)}) <= 1

C3_Witness ==
    \E r, s \in Slots :
        /\ r # s
        /\ InUse(r)
        /\ req[s].kind = "query_database"
        /\ req[s].pc = "ready"

\* C4: a finished query_database either returned the serialization of one
\* normalized row per row of the result set, or raised and returned nothing;
\* it raised whenever the driver did.
C4_AllOrNothing ==
    \A r \in Slots :
        Done(r, "query_database") =>
            LET stmt == Statements[req[r].query]
            IN /\ req[r].status \in {"ok", "error"}
               /\ req[r].status = "error" => DOMAIN req[r].out = {}
               /\ (req[r].exc \/ stmt.fails \/ ~stmt.hasResult)
                      => req[r].status = "error"
               /\ req[r].status = "ok" =>
                      /\ DOMAIN req[r].out = {"yaml"}
                      /\ Len(req[r].out.yaml) = Len(stmt.tuples)
                      /\ \A i \in 1..Len(stmt.tuples) :
                            \A k \in DOMAIN req[r].out.yaml[i] :
                                ~IsUUID(req[r].out.yaml[i][k])

C4_Witness ==
    /\ \E r \in Slots : /\ Done(r, "query_database")
                        /\ req[r].status = "error"
                        /\ Statements[req[r].query].fails
    /\ \E i \in 1..Len(conns) : conns[i].by = "app_lifespan" /\ i # sessionConn

\* C5: the mutation of a query_database call that returned is committed, the
\* call leaves no transaction open, and nothing later takes the mutation back.
C5_AckedCommitted ==
    /\ acked \subseteq committed
    /\ \A r \in Slots :
          (Done(r, "query_database") /\ req[r].status = "ok")
              => /\ conns[req[r].conn].tx = "IDLE"
                 /\ conns[req[r].conn].pending = {}

C5_Witness ==
    /\ "insert_user" \in acked
    /\ \E r \in Slots : /\ Done(r, "query_database")
                        /\ req[r].query = "selec"
                        /\ req[r].status = "error"
                        /\ conns[req[r].conn].by = "app_lifespan"
                        /\ req[r].conn > 1

\* C6 as stated: every connection the program makes yields rows keyed by
\* field name.
C6_AllConnsKeyed ==
    \A i \in 1..Len(conns) : conns[i].row_factory = "dict_row"

\* C6 as amended: the session connection yields rows keyed by field name; a
\* per-request connection of the introspection handlers yields positional
\* tuples.
C6_RowFactories ==
    /\ \A i \in 1..Len(conns) :
          conns[i].row_factory =
              IF conns[i].by = "app_lifespan" THEN "dict_row" ELSE "tuple_row"
    /\ \A r \in Slots : \A i \in 1..Len(req[r].rows) :
          CASE req[r].kind = "query_database" ->
                 LET cols == Statements[req[r].query].cols
                 IN DOMAIN req[r].rows[i] = {cols[j] : j \in 1..Len(cols)}
            [] req[r].kind = "get_schema_description" ->
                 DOMAIN req[r].rows[i] = 1..3
            [] req[r].kind = "get_table_description" ->
                 DOMAIN req[r].rows[i] = 1..7
            [] OTHER -> TRUE

C6_Witness ==
    /\ sessionConn # 0
    /\ \E r, s \in Slots :
          /\ req[r].kind = "get_table_description"
          /\ req[r].rows # <<>>
          /\ conns[req[r].conn].row_factory = "tuple_row"
          /\ req[s].kind = "query_database"

ZeroTables(schema) ==
    ~\E t \in Catalog : t.schema = schema /\ t.relkind = "r"

ZeroColumns(schema, table) ==
    \A t \in Catalog : (t.schema = schema /\ t.name = table) => t.columns = {}

\* C7: when the database answers, the introspection of a schema without
\* ordinary tables returns a summary with no tables, and that of an absent
\* or column-less table returns the requested names with no columns.
C7_AbsentIsEmpty ==
    \A r \in Slots :
        /\ (Done(r, "get_schema_description") /\ ~req[r].exc
              /\ req[r].conn # 0 /\ ZeroTables(req[r].schema))
             => /\ req[r].status = "ok"
                /\ req[r].out.yaml.tables = <<>>
        /\ (Done(r, "get_table_description") /\ ~req[r].exc
              /\ req[r].conn # 0 /\ ZeroColumns(req[r].schema, req[r].table))
             => /\ req[r].status = "ok"
                /\ req[r].out.yaml.schema_name = VStr(req[r].schema)
                /\ req[r].out.yaml.table_name = VStr(req[r].table)
                /\ req[r].out.yaml.columns = <<>>

C7_Witness ==
    \E r, s \in Slots :
        /\ Done(r, "get_table_description")
        /\ req[r].status = "ok"
        /\ req[r].table = "missing"
        /\ req[s].kind = "get_schema_description"
        /\ req[s].schema = "ghost"

\* C8: the rows query_database returns are the fetched rows, as many and in
\* the same order, each with the same keys, every UUID value replaced by its
\* string and every other value unchanged.
C8_Normalized ==
    \A r \in Slots :
        (Done(r, "query_database") /\ req[r].status = "ok") =>
            LET raw == req[r].rows
                got == req[r].out.yaml
            IN /\ Len(got) = Len(raw)
               /\ \A i \in 1..Len(raw) :
                     /\ DOMAIN got[i] = DOMAIN raw[i]
                     /\ \A k \in DOMAIN raw[i] :
                           IF raw[i][k][1] = "uuid"
                           THEN got[i][k] = <<"str", raw[i][k][2]>>
                           ELSE got[i][k] = raw[i][k]

C8_Witness ==
    \E r \in Slots :
        /\ Done(r, "query_database")
        /\ req[r].status = "ok"
        /\ req[r].query = "select_users"
        /\ Len(req[r].out.yaml) = 2
        /\ req[r].out.yaml[2].name = VNone

\* the ordinal position the catalog gives a column of a table
Ordinal(schema, table, column) ==
    LET t == CHOOSE u \in Catalog : u.schema = schema /\ u.name = table
        c == CHOOSE d \in t.columns : VStr(d.column_name) = column
    IN c.ordinal_position

\* C9: get_table_description returns one Column per row of the catalog query,
\* in the order of the rows, which is non-decreasing in ordinal position;
\* get_schema_description returns one TableSummary per row, in row order.
C9_QueryOrderKept ==
    \A r \in Slots :
        /\ (Done(r, "get_table_description") /\ req[r].status = "ok") =>
              LET cols == req[r].out.yaml.columns
              IN /\ Len(cols) = Len(req[r].rows)
                 /\ \A i \in 1..Len(cols) :
                       cols[i].column_name = req[r].rows[i][1]
                 /\ \A i, j \in 1..Len(cols) :
                       i < j =>
                         Ordinal(req[r].schema, req[r].table,
                                 cols[i].column_name)
                           <= Ordinal(req[r].schema, req[r].table,
                                      cols[j].column_name)
        /\ (Done(r, "get_schema_description") /\ req[r].status = "ok") =>
              LET tables == req[r].out.yaml.tables
              IN /\ Len(tables) = Len(req[r].rows)
                 /\ \A i \in 1..Len(tables) :
                       tables[i].table_name = req[r].rows[i][2]

C9_Witness ==
    \E r \in Slots :
        /\ Done(r, "get_table_description")
        /\ req[r].status = "ok"
        /\ req[r].table = "users"
        /\ Len(req[r].out.yaml.columns) = 3
        /\ req[r].out.yaml.columns[3].column_name = VStr("age")

\* C10: a step of an introspection request leaves the session connection as
\* it was, and the connection the request takes is one psycopg.connect has
\* just returned, so no request had it before; query_database takes the
\* session connection only.
C10_OwnConnection ==
    [][\A r \in Slots :
          (req[r].pc \in {"ready", "execute", "exit"}
              /\ req'[r].pc # req[r].pc) =>
            IF req[r].kind \in Introspection
            THEN /\ sessionConn' = sessionConn
                 /\ conns'[sessionConn] = conns[sessionConn]
                 /\ req'[r].conn # req[r].conn =>
                       /\ req'[r].conn = Len(conns) + 1
                       /\ Len(conns') = Len(conns) + 1
                       /\ conns'[req'[r].conn].by = req[r].kind
                 /\ \A s \in Slots \ {r} : req'[s].conn # req'[r].conn
                                              \/ req'[r].conn = 0
            ELSE req'[r].conn = sessionConn]_vars

C10_Witness ==
    /\ phase = "up"
    /\ ~conns[sessionConn].closed
    /\ \E r \in Slots :
          /\ req[r].kind \in Introspection
          /\ req[r].pc = "done"
          /\ req[r].status = "error"
          /\ req[r].conn > sessionConn

=============================================================================
